---- MODULE Spec2Model ----
(***************************************************************************)
(* The ATG pipeline of critic: Text::parse, the correction flattener, the   *)
(* word tokeniser and the surface supplier, with the example dialect.       *)
(*                                                                           *)
(* A scalar (Rust char) is its Unicode code point, a string is a sequence   *)
(* of code points.  Byte offsets are computed with len_utf8, as Rust's str  *)
(* indexing does.  An Option<T> is a sequence of length 0 (None) or 1.      *)
(* A Rust function whose body matches on the result of a call is written    *)
(* as the call handed to an operator named <function>_on... that holds the  *)
(* rest of the body.                                                        *)
(***************************************************************************)
EXTENDS Integers, Sequences, FiniteSets, TLC

(***************************************************************************)
(* The example dialect (atg/dialect/example.rs)                             *)
(***************************************************************************)
escape == 92
start_param == 40
stop_param == 41
illegible == 94
lacuna == 126
anchor == 167
format_break == 47
correction == 38
comment == 35
non_semantic == {9, 10}
NATIVE_POINTS == (97..122) \cup (65..90) \cup {44, 46, 39}
PUNCTUATION == {44, 46}
WORD_DIVISOR == 32

is_non_semantic(c) == c \in non_semantic

is_control_point(c) ==
    \/ c \in {escape, start_param, stop_param, correction, illegible, lacuna,
              correction, anchor, format_break, comment}
    \/ is_non_semantic(c)

(***************************************************************************)
(* Strings and bytes                                                        *)
(***************************************************************************)
len_utf8(c) == IF c < 128 THEN 1 ELSE IF c < 2048 THEN 2 ELSE IF c < 65536 THEN 3 ELSE 4

RECURSIVE str_len(_)
str_len(s) == IF s = <<>> THEN 0 ELSE len_utf8(Head(s)) + str_len(Tail(s))

Drop(s, n) == SubSeq(s, n + 1, Len(s))

is_ascii_hexdigit(c) == c \in (48..57) \cup (65..70) \cup (97..102)

HexVal(c) == IF c \in 48..57 THEN c - 48 ELSE IF c \in 65..70 THEN c - 55 ELSE c - 87

RECURSIVE from_str_radix16(_, _)
from_str_radix16(s, acc) ==
    IF s = <<>> THEN acc ELSE from_str_radix16(Tail(s), acc * 16 + HexVal(Head(s)))

\* core::char::from_u32: Some(n) unless n is a surrogate or above 0x10FFFF
char_from_u32(n) == IF n > 1114111 \/ (n >= 55296 /\ n <= 57343) THEN <<>> ELSE <<n>>

\* s.chars().skip(1).take(n).all(|x| x.is_ascii_hexdigit())
all_hex(s, n) == \A i \in 2..(n + 1) : i <= Len(s) => is_ascii_hexdigit(s[i])

(***************************************************************************)
(* Results of the parsers: ok (with the values of the Ok tuple), err (an    *)
(* AtgParseError with location and reason) or panic.                        *)
(***************************************************************************)
Err(loc, rsn) == [st |-> "err", location |-> loc, reason |-> rsn]
Panic == [st |-> "panic"]
offset_location(e, offset) ==
    IF e.st = "err" THEN [st |-> "err", location |-> e.location + offset, reason |-> e.reason]
    ELSE e

(***************************************************************************)
(* Escape engine                                                            *)
(***************************************************************************)
HexEscape_on(s, n, ch) ==
    IF ch = <<>> THEN [st |-> "err", text |-> SubSeq(s, 1, n + 1)]
    ELSE [st |-> "ok", c |-> ch[1], rem |-> Drop(s, n + 1), adv |-> n + 1]

HexEscape(s, n) == HexEscape_on(s, n, char_from_u32(from_str_radix16(SubSeq(s, 2, n + 1), 0)))

\* &s[idx..] panics when idx is not a char boundary
slice_from(s, chars, idx, c) ==
    IF idx # str_len(SubSeq(s, 1, chars)) THEN Panic
    ELSE [st |-> "ok", c |-> c, rem |-> Drop(s, chars), adv |-> idx]

escape_one_if_required(s) ==
    IF s = <<>> THEN [st |-> "err", text |-> s]
    ELSE IF s[1] # escape THEN
       slice_from(s, 1, IF Len(s) >= 2 THEN len_utf8(s[1]) ELSE 1, s[1])
    ELSE IF Len(s) < 2 THEN [st |-> "err", text |-> s]
    ELSE IF is_control_point(s[2]) THEN
       slice_from(s, 2, IF Len(s) >= 3 THEN len_utf8(s[1]) + len_utf8(s[2]) ELSE 2, s[2])
    ELSE IF str_len(s) >= 7 /\ all_hex(s, 6) THEN HexEscape(s, 6)
    ELSE IF str_len(s) >= 5 /\ all_hex(s, 4) THEN HexEscape(s, 4)
    ELSE IF str_len(s) >= 3 /\ all_hex(s, 2) THEN HexEscape(s, 2)
    ELSE [st |-> "err", text |-> s]

\* .map_err(|x| AtgParseError::new(offset, EscapeMalformed(x)))
escape_err(e, offset) ==
    IF e.st = "err" THEN Err(offset, <<"EscapeMalformed", e.text>>) ELSE e

RECURSIVE escape_until_next_loop(_, _, _, _)
escape_until_next_on(c, res, offset, e) ==
    IF e.st # "ok" THEN e
    ELSE IF e.c = c THEN [st |-> "ok", res |-> res, rem |-> e.rem, offset |-> offset + e.adv]
    ELSE escape_until_next_loop(c, Append(res, e.c), e.rem, offset + e.adv)

escape_until_next_loop(c, res, remainder, offset) ==
    IF remainder = <<>> THEN Err(offset, <<"EOF", c>>)
    ELSE escape_until_next_on(c, res, offset,
                              escape_err(escape_one_if_required(remainder), offset))

escape_until_next(c, s) == escape_until_next_loop(c, <<>>, s, 0)

RECURSIVE escape_until_control_point_loop(_, _, _)
escape_until_control_point_on(res, remainder, offset, e) ==
    IF e.st # "ok" THEN e
    ELSE IF is_control_point(e.c) THEN
       [st |-> "ok", res |-> res, ctrl |-> <<e.c>>, rem |-> remainder,
        offset |-> offset + e.adv]
    ELSE escape_until_control_point_loop(Append(res, e.c), e.rem, offset + e.adv)

escape_until_control_point_loop(res, remainder, offset) ==
    IF remainder = <<>> THEN
       [st |-> "ok", res |-> res, ctrl |-> <<>>, rem |-> remainder, offset |-> 0]
    ELSE escape_until_control_point_on(res, remainder, offset,
                                       escape_err(escape_one_if_required(remainder), offset))

escape_until_control_point(s) == escape_until_control_point_loop(<<>>, s, 0)

(***************************************************************************)
(* Parameter reader                                                         *)
(***************************************************************************)
collect_parameter_on(e) ==
    IF e.st # "ok" THEN e
    ELSE IF e.c # start_param THEN Err(0, <<"MissingParameterStart">>)
    ELSE offset_location(escape_until_next(stop_param, e.rem), 1)

collect_parameter(s) == collect_parameter_on(escape_err(escape_one_if_required(s), 0))

\* byte index of the first scalar of parameter that is not native, or -1
RECURSIVE first_not_native(_, _)
first_not_native(parameter, idx) ==
    IF parameter = <<>> THEN -1
    ELSE IF Head(parameter) \notin NATIVE_POINTS THEN idx
    ELSE first_not_native(Tail(parameter), idx + len_utf8(Head(parameter)))

collect_native_parameter_check(p, idx) ==
    IF idx >= 0 THEN Err(idx, <<"NotNative", p.res>>) ELSE p

collect_native_parameter_on(p) ==
    IF p.st # "ok" THEN p ELSE collect_native_parameter_check(p, first_not_native(p.res, 0))

collect_native_parameter(s) ==
    IF s = <<>> THEN Err(0, <<"MissingParameterStart">>)
    ELSE collect_native_parameter_on(collect_parameter(s))

(***************************************************************************)
(* Parts                                                                    *)
(***************************************************************************)
Native(x) == [kind |-> "Native", s |-> x]
Uncertain(k, n, prop) == [kind |-> k, len |-> n, proposal |-> prop]
Correction(vs) == [kind |-> "Correction", versions |-> vs]
FormatBreak(x) == [kind |-> "FormatBreak", fb |-> x]
Anchor(x) == [kind |-> "Anchor", value |-> x]

OkPart(p, r) == [st |-> "ok", part |-> p, rem |-> r]

is_digit(c) == c \in 48..57

RECURSIVE dec_value(_, _)
dec_value(s, acc) == IF s = <<>> THEN acc ELSE dec_value(Tail(s), acc * 10 + (Head(s) - 48))

parse_u8_digits(digits) ==
    IF digits = <<>> \/ (\E i \in 1..Len(digits) : ~is_digit(digits[i])) THEN <<>>
    ELSE IF dec_value(digits, 0) > 255 THEN <<>> ELSE <<dec_value(digits, 0)>>

\* str::parse::<u8>: an optional '+', then one or more decimal digits, at most 255
parse_u8(s) ==
    IF s = <<>> THEN <<>> ELSE parse_u8_digits(IF s[1] = 43 THEN Tail(s) ELSE s)

Example_of(nr) ==
    IF nr = <<>> THEN <<>>
    ELSE IF nr[1] = 1 THEN <<"One">>
    ELSE IF nr[1] = 2 THEN <<"Two">>
    ELSE <<>>

\* Example::from_str, through AnchorDialect::parse
anchor_dialect_parse(s) ==
    IF s = <<>> THEN <<>>
    ELSE IF str_len(s) >= 2 THEN <<>>
    ELSE Example_of(parse_u8(s))

parse_anchor_value(p, a) ==
    IF a = <<>> THEN Err(1, <<"Anchor", p.res>>) ELSE OkPart(Anchor(a[1]), p.rem)

parse_anchor_on(p) ==
    IF p.st # "ok" THEN p ELSE parse_anchor_value(p, anchor_dialect_parse(p.res))

parse_anchor(s) == parse_anchor_on(collect_parameter(s))

parse_comment_on(p) ==
    IF p.st # "ok" THEN p ELSE [st |-> "ok", len |-> str_len(p.res), rem |-> p.rem]

parse_comment(s) == parse_comment_on(collect_parameter(s))

FormatBreak_parse_on(p) ==
    IF p.st # "ok" THEN p
    ELSE IF p.res = <<108, 105, 110, 101>> THEN OkPart(FormatBreak("Line"), p.rem)
    ELSE IF p.res = <<112, 97, 114, 97, 103, 114, 97, 112, 104>>
         THEN OkPart(FormatBreak("Paragraph"), p.rem)
    ELSE IF p.res = <<99, 111, 108, 117, 109, 110>> THEN OkPart(FormatBreak("Column"), p.rem)
    ELSE IF p.res = <<102, 111, 108, 105, 111>> THEN OkPart(FormatBreak("Folio"), p.rem)
    ELSE Err(1, <<"UnknownFormatBreak", p.res>>)

FormatBreak_parse(s) == FormatBreak_parse_on(collect_parameter(s))

\* the match on the result of collect_native_parameter for the proposal
Uncertain_parse_proposal(k, uncertain_len, fp, pr) ==
    IF pr.st = "panic" THEN pr
    ELSE IF pr.st = "err" THEN
       IF pr.reason[1] = "MissingParameterStart"
       THEN OkPart(Uncertain(k, uncertain_len, <<>>), fp.rem)
       ELSE pr
    ELSE OkPart(Uncertain(k, uncertain_len, IF pr.res = <<>> THEN <<>> ELSE <<pr.res>>),
                pr.rem)

Uncertain_parse_len(k, fp, uncertain_len) ==
    IF uncertain_len = <<>> THEN Err(1, <<"LengthNotANumber", fp.res>>)
    ELSE IF fp.rem = <<>> THEN OkPart(Uncertain(k, uncertain_len[1], <<>>), fp.rem)
    ELSE Uncertain_parse_proposal(k, uncertain_len[1], fp,
            offset_location(collect_native_parameter(fp.rem), fp.offset + 1))

Uncertain_parse_first(k, fp) ==
    IF fp.st # "ok" THEN fp ELSE Uncertain_parse_len(k, fp, parse_u8(fp.res))

Uncertain_parse_on(k, e) ==
    IF e.st # "ok" THEN e
    ELSE IF e.c # start_param THEN Err(0, <<"MissingParameterStart">>)
    ELSE Uncertain_parse_first(k, offset_location(escape_until_next(stop_param, e.rem), 1))

Uncertain_parse(k, s) == Uncertain_parse_on(k, escape_err(escape_one_if_required(s), 0))

\* Correction_finish without the comparison against number_of_corrections
Correction_finish_unchecked(versions, remainder, offset, number_of_corrections) ==
    OkPart([kind |-> "Correction", versions |-> versions], remainder)

\* the check of the number of versions that ends Correction::parse
Correction_finish(versions, remainder, offset, number_of_corrections) ==
    IF Len(versions) # number_of_corrections
    THEN Err(offset, <<"IncorrectNumberOfCorrections", number_of_corrections, Len(versions)>>)
    ELSE OkPart(Correction(versions), remainder)

RECURSIVE Correction_parse_loop(_, _, _, _)
Correction_parse_loop_on(versions, remainder, offset, number_of_corrections, p) ==
    IF p.st = "panic" THEN p
    ELSE IF p.st = "err" THEN
       IF p.reason[1] = "MissingParameterStart"
       THEN Correction_finish(versions, remainder, offset, number_of_corrections)
       ELSE offset_location(p, offset)
    ELSE Correction_parse_loop(Append(versions, Native(p.res)), p.rem,
                               offset + p.offset, number_of_corrections)

Correction_parse_loop(versions, remainder, offset, number_of_corrections) ==
    Correction_parse_loop_on(versions, remainder, offset, number_of_corrections,
                             collect_native_parameter(remainder))

Correction_parse_on(p, number_of_corrections) ==
    IF p.st # "ok" THEN p
    ELSE Correction_parse_loop(<<Native(p.res)>>, p.rem, 0, number_of_corrections)

Correction_parse(s, number_of_corrections) ==
    Correction_parse_on(collect_native_parameter(s), number_of_corrections)

RECURSIVE parse_native_loop(_, _, _, _)
parse_native_next(res, offset, n) ==
    IF n.st # "ok" THEN n
    ELSE parse_native_loop(res \o n.res, n.ctrl, n.rem, offset + n.offset)

parse_native_comment(res, offset, pc0) ==
    IF pc0.st # "ok" THEN pc0
    ELSE parse_native_next(res, offset,
                           offset_location(escape_until_control_point(pc0.rem), offset))

parse_native_loop(res, maybe_ctrl, remainder, offset) ==
    IF maybe_ctrl = <<>> THEN OkPart(Native(res), <<>>)
    ELSE IF maybe_ctrl[1] = comment THEN
       parse_native_comment(res, offset, parse_comment(remainder))
    ELSE IF is_non_semantic(maybe_ctrl[1]) THEN
       \* &remainder[1..]: the first scalar of remainder is one byte long here
       parse_native_next(res, offset,
                         offset_location(escape_until_control_point(Tail(remainder)), offset))
    ELSE OkPart(Native(res), remainder)

parse_native_on(f) ==
    IF f.st # "ok" THEN f ELSE parse_native_loop(f.res, f.ctrl, f.rem, 0)

parse_native(s) ==
    IF s = <<>> THEN OkPart(Native(<<>>), <<>>)
    ELSE parse_native_on(escape_until_control_point(s))

Part_parse_comment(c0) ==
    IF c0.st # "ok" THEN c0 ELSE offset_location(parse_native(c0.rem), c0.len)

Part_parse_on(s, number_of_corrections, e) ==
    IF e.st # "ok" THEN e
    ELSE IF e.c = illegible \/ e.c = lacuna THEN
       offset_location(
          Uncertain_parse(IF e.c = illegible THEN "Illegible" ELSE "Lacuna", e.rem), 1)
    ELSE IF e.c = anchor THEN offset_location(parse_anchor(e.rem), 1)
    ELSE IF e.c = format_break THEN offset_location(FormatBreak_parse(e.rem), 1)
    ELSE IF e.c = correction
         THEN offset_location(Correction_parse(e.rem, number_of_corrections), 1)
    ELSE IF e.c = comment THEN
       Part_parse_comment(offset_location(parse_comment(e.rem), 1))
    ELSE parse_native(s)

Part_parse(s, number_of_corrections) ==
    IF s = <<>> THEN OkPart(Native(<<>>), s)
    ELSE Part_parse_on(s, number_of_corrections,
                       escape_err(escape_one_if_required(s), 0))

(***************************************************************************)
(* Text::parse as a function: the loop over Part::parse.  The loop has no   *)
(* bound of its own; fuel bounds the number of parts read and "diverged"    *)
(* reports that the fuel ran out.                                           *)
(***************************************************************************)
RECURSIVE Text_parse_loop(_, _, _, _)
Text_parse_on(ps, number_of_corrections, fuel, r) ==
    IF r.st # "ok" THEN r
    ELSE IF r.rem = <<>> THEN [st |-> "ok", parts |-> Append(ps, r.part)]
    ELSE Text_parse_loop(Append(ps, r.part), r.rem, number_of_corrections, fuel - 1)

Text_parse_loop(ps, s, number_of_corrections, fuel) ==
    IF fuel = 0 THEN [st |-> "diverged"]
    ELSE Text_parse_on(ps, number_of_corrections, fuel, Part_parse(s, number_of_corrections))

(***************************************************************************)
(* Renderer                                                                 *)
(***************************************************************************)
\* Display of a u8
RECURSIVE u8_to_string(_)
u8_to_string(n) ==
    IF n < 10 THEN <<48 + n>> ELSE Append(u8_to_string(n \div 10), 48 + (n % 10))

Uncertain_render(x) ==
    <<IF x.kind = "Illegible" THEN illegible ELSE lacuna, start_param>>
       \o u8_to_string(x.len) \o <<stop_param>>
       \o (IF x.proposal = <<>> THEN <<>>
           ELSE <<start_param>> \o x.proposal[1] \o <<stop_param>>)

Present_render(v) == IF v.kind = "Native" THEN v.s ELSE Uncertain_render(v)

RECURSIVE Correction_render_versions(_)
Correction_render_versions(versions) ==
    IF versions = <<>> THEN <<>>
    ELSE <<start_param>> \o Present_render(Head(versions)) \o <<stop_param>>
            \o Correction_render_versions(Tail(versions))

Correction_render(x) == <<correction>> \o Correction_render_versions(x.versions)

FormatBreak_render(x) ==
    <<format_break, start_param>>
       \o (IF x.fb = "Line" THEN <<108, 105, 110, 101>>
           ELSE IF x.fb = "Column" THEN <<99, 111, 108, 117, 109, 110>>
           ELSE IF x.fb = "Paragraph" THEN <<112, 97, 114, 97, 103, 114, 97, 112, 104>>
           ELSE <<102, 111, 108, 105, 111>>)
       \o <<stop_param>>

\* Display that writes 1 for every anchor
Anchor_display_one(a) == <<49>>

\* Display of the example anchor
Anchor_display(a) == IF a = "One" THEN <<49>> ELSE <<50>>

Part_render(x) ==
    IF x.kind = "Native" THEN x.s
    ELSE IF x.kind \in {"Illegible", "Lacuna"} THEN Uncertain_render(x)
    ELSE IF x.kind = "Correction" THEN Correction_render(x)
    ELSE IF x.kind = "FormatBreak" THEN FormatBreak_render(x)
    ELSE <<anchor, start_param>> \o Anchor_display(x.value) \o <<stop_param>>

RECURSIVE Text_render(_)
Text_render(ps) == IF ps = <<>> THEN <<>> ELSE Part_render(Head(ps)) \o Text_render(Tail(ps))

(***************************************************************************)
(* Flattener (atg/normalize/flatten.rs)                                     *)
(***************************************************************************)
RECURSIVE max_versions(_, _)
max_versions(ps, m) ==
    IF ps = <<>> THEN m
    ELSE max_versions(Tail(ps),
            IF Head(ps).kind = "Correction" /\ (m = <<>> \/ Len(Head(ps).versions) > m[1])
            THEN <<Len(Head(ps).versions)>> ELSE m)

num_of_corrections_or(m) == IF m = <<>> THEN 1 ELSE m[1]

\* .filter_map(..).max().unwrap_or(1)
num_of_corrections(ps) == num_of_corrections_or(max_versions(ps, <<>>))

\* correction_version that hands the first version to every hand
correction_version_first(x, idx) == x.versions[1]

\* x.versions.get(idx).unwrap_or(Present::Native("")), idx counted from 1
correction_version(x, idx) ==
    IF idx <= Len(x.versions) THEN x.versions[idx] ELSE Native(<<>>)

unique_part(part, idx) ==
    IF part.kind = "Correction" THEN correction_version(part, idx) ELSE part

flatten_to(ps, num) ==
    IF \E j \in 1..Len(ps) : ps[j].kind = "Correction" /\ Len(ps[j].versions) < num
    THEN Panic
    ELSE [st |-> "ok",
          res |-> [idx \in 1..num |-> [j \in 1..Len(ps) |-> unique_part(ps[j], idx)]]]

flatten(ps) == flatten_to(ps, num_of_corrections(ps))

(***************************************************************************)
(* Tokeniser (atg/normalize/tokenize.rs)                                    *)
(***************************************************************************)
Word(ps) == [parts |-> ps]

\* the inner while loop: index of the next divisor or punctuation from j on
RECURSIVE run_end(_, _)
run_end(s, j) ==
    IF j > Len(s) THEN j
    ELSE IF s[j] = WORD_DIVISOR \/ s[j] \in PUNCTUATION THEN j
    ELSE run_end(s, j + 1)

\* the items (substring, closed) that the iterator yields from scalar i on
RECURSIVE WordSplitIterator(_, _)
\* WordSplitIterator_run that does not remember the punctuation that ended a run
WordSplitIterator_run_forgetful(s, i, j) ==
    IF j > Len(s) THEN << <<SubSeq(s, i, Len(s)), FALSE>> >>
    ELSE << <<SubSeq(s, i, j - 1), TRUE>> >> \o WordSplitIterator(s, j + 1)

WordSplitIterator_run(s, i, j) ==
    IF j > Len(s) THEN << <<SubSeq(s, i, Len(s)), FALSE>> >>
    ELSE IF s[j] = WORD_DIVISOR
         THEN << <<SubSeq(s, i, j - 1), TRUE>> >> \o WordSplitIterator(s, j + 1)
    ELSE << <<SubSeq(s, i, j - 1), TRUE>>, << <<s[j]>>, TRUE>> >>
            \o WordSplitIterator(s, j + 1)

WordSplitIterator(s, i) ==
    IF i > Len(s) THEN <<>>
    ELSE IF s[i] = WORD_DIVISOR THEN << <<<<>>, FALSE>> >> \o WordSplitIterator(s, i + 1)
    ELSE IF s[i] \in PUNCTUATION THEN << << <<s[i]>>, TRUE>> >> \o WordSplitIterator(s, i + 1)
    ELSE WordSplitIterator_run(s, i, run_end(s, i + 1))

split_native_stream(s) == WordSplitIterator(s, 1)

word_part(kind, word) ==
    IF kind = "Native" THEN Native(word) ELSE Uncertain(kind, str_len(word), <<word>>)

RECURSIVE chain_words(_, _)
chain_words(kind, items) ==
    IF items = <<>> THEN <<>>
    ELSE IF Head(items)[1] = <<>> THEN chain_words(kind, Tail(items))
    ELSE <<Word(<<word_part(kind, Head(items)[1])>>)>> \o chain_words(kind, Tail(items))

BoundedWordChain(l, c, r) ==
    [st |-> "ok", left_boundary_divides |-> l, word_chain |-> c, right_boundary_divides |-> r]

\* the loop over split_native_stream and the expect that follows it
split_stream(kind, items) ==
    IF kind # "Native" /\ (\E i \in 1..Len(items) : str_len(items[i][1]) > 255) THEN Panic
    ELSE IF items = <<>> THEN Panic
    ELSE BoundedWordChain(items[1][1] = <<>>, chain_words(kind, items), items[Len(items)][2])

\* UniqueSurfacePart::split_words
split_part(x) ==
    IF x.kind = "Native" THEN split_stream("Native", split_native_stream(x.s))
    ELSE IF x.proposal = <<>> THEN BoundedWordChain(TRUE, <<Word(<<x>>)>>, TRUE)
    ELSE split_stream(x.kind, split_native_stream(x.proposal[1]))

\* push_anchor that inserts at the front of the list
push_anchor_front(anchors, x, words) == <<<<x.value, Len(words)>>>> \o anchors

push_anchor(anchors, x, words) == Append(anchors, <<x.value, Len(words)>>)

\* merge_chain that appends the chain without continuing the last word
merge_chain_append(words, chain) == words \o chain

\* merge_chain that leaves the emptied first word of the chain in the list
merge_chain_keep_first(words, chain) ==
    IF words = <<>> THEN chain
    ELSE [words EXCEPT ![Len(words)] = Word(@.parts \o chain[1].parts)]
            \o <<Word(<<>>)>> \o Tail(chain)

\* the else branch: the first word of the chain continues the last word
merge_chain(words, chain) ==
    IF words = <<>> THEN chain
    ELSE [words EXCEPT ![Len(words)] = Word(@.parts \o chain[1].parts)] \o Tail(chain)

SplitState(w, a, b) == [st |-> "ok", words |-> w, anchors |-> a, break_after_last |-> b]

split_words_surface(words, anchors, break_after_last, bounded_chain) ==
    IF bounded_chain.st # "ok" THEN bounded_chain
    ELSE IF break_after_last = <<>> THEN
       SplitState(words \o bounded_chain.word_chain, anchors,
                  <<bounded_chain.right_boundary_divides>>)
    ELSE IF bounded_chain.left_boundary_divides \/ break_after_last[1] THEN
       SplitState(words \o bounded_chain.word_chain, anchors,
                  <<bounded_chain.right_boundary_divides>>)
    ELSE IF bounded_chain.word_chain = <<>> THEN Panic
    ELSE SplitState(merge_chain(words, bounded_chain.word_chain), anchors,
                    <<bounded_chain.right_boundary_divides>>)

\* split_words_step in which a format break ends the current word
split_words_step_breaking(words, anchors, break_after_last, part) ==
    IF part.kind = "Anchor" THEN SplitState(words, push_anchor(anchors, part, words), <<TRUE>>)
    ELSE IF part.kind = "FormatBreak" THEN SplitState(words, anchors, <<TRUE>>)
    ELSE split_words_surface(words, anchors, break_after_last, split_part(part))

\* one iteration of the loop of UniqueText::split_words
split_words_step(words, anchors, break_after_last, part) ==
    IF part.kind = "Anchor" THEN SplitState(words, push_anchor(anchors, part, words), <<TRUE>>)
    ELSE IF part.kind = "FormatBreak" THEN SplitState(words, anchors, break_after_last)
    ELSE split_words_surface(words, anchors, break_after_last, split_part(part))

(***************************************************************************)
(* Supplier                                                                 *)
(***************************************************************************)
repeat(c, n) == [i \in 1..n |-> c]

\* supply_uncertain that repeats the illegible scalar for a Lacuna as well
UniqueSurfacePart_supply_uncertain_illegible(x) ==
    IF x.kind = "Native" THEN x.s
    ELSE IF x.proposal # <<>> THEN x.proposal[1]
    ELSE repeat(illegible, x.len)

UniqueSurfacePart_supply_uncertain(x) ==
    IF x.kind = "Native" THEN x.s
    ELSE IF x.proposal # <<>> THEN x.proposal[1]
    ELSE repeat(IF x.kind = "Illegible" THEN illegible ELSE lacuna, x.len)

RECURSIVE supply_parts(_)
supply_parts(ps) ==
    IF ps = <<>> THEN <<>>
    ELSE UniqueSurfacePart_supply_uncertain(Head(ps)) \o supply_parts(Tail(ps))

Word_supply_uncertain(w) == <<w, supply_parts(w.parts)>>

into_anchored_normalised_text(words, anchors) ==
    [text |-> [i \in 1..Len(words) |-> Word_supply_uncertain(words[i])],
     anchor_positions |-> anchors]

(***************************************************************************)
(* Bounds and inputs                                                        *)
(***************************************************************************)
MaxSegs == 3
MaxBaseSegs == 2
MaxTextParts == 3
MaxN == 2
MaxParts == MaxSegs + 3

\* a \s . ( ) \ \n # ^ & § (1) (a) ^(1)(a) ~(2) §(1) §(2) /(line) &(a)(b) #(a) ,b
\* ^(0) (a b) §(1)\s
Segments ==
    { <<97>>, <<32>>, <<46>>, <<40>>, <<41>>, <<92>>, <<10>>, <<35>>, <<94>>, <<38>>, <<167>>,
      <<40, 49, 41>>, <<40, 97, 41>>, <<94, 40, 49, 41, 40, 97, 41>>, <<126, 40, 50, 41>>,
      <<167, 40, 49, 41>>, <<167, 40, 50, 41>>, <<47, 40, 108, 105, 110, 101, 41>>,
      <<38, 40, 97, 41, 40, 98, 41>>, <<35, 40, 97, 41>>, <<44, 98>>,
      <<94, 40, 48, 41>>, <<40, 97, 32, 98, 41>>,
      <<167, 40, 49, 41, 32>> }

RECURSIVE Concat(_)
Concat(q) == IF q = <<>> THEN <<>> ELSE Head(q) \o Concat(Tail(q))

StringsOf(n) == { Concat(q) : q \in UNION { [1..k -> Segments] : k \in 0..n } }

Inputs == StringsOf(MaxSegs)

Contains(s, c) == \E i \in 1..Len(s) : s[i] = c

\* texts without a comment and without an escape, into which a comment is inserted
Bases == { s \in StringsOf(MaxBaseSegs) : ~Contains(s, comment) /\ ~Contains(s, escape) }

CommentText == <<comment, start_param, 97, stop_param>>

RECURSIVE depth(_, _)
depth(s, k) ==
    IF k = 0 THEN 0
    ELSE depth(s, k - 1) + (IF s[k] = start_param THEN 1 ELSE IF s[k] = stop_param THEN -1 ELSE 0)

\* position k (after k scalars) is outside a parameter body and not between a
\* control point or a parameter and the parameter that follows it
insertable(s, k) ==
    /\ \A j \in 0..k : depth(s, j) >= 0
    /\ depth(s, k) = 0
    /\ (k < Len(s) => s[k + 1] # start_param)

\* position k (after k scalars) is outside a parameter body
outside_parameter(s, k) ==
    /\ \A j \in 0..k : depth(s, j) >= 0
    /\ depth(s, k) = 0

NonSemanticRuns == { <<10>>, <<9>>, <<10, 9>> }

insert_at(s, k, x) == SubSeq(s, 1, k) \o x \o SubSeq(s, k + 1, Len(s))

insert_comment(s, k) == SubSeq(s, 1, k) \o CommentText \o SubSeq(s, k + 1, Len(s))

TextParts ==
    { Native(<<97>>), Native(<<32>>), Native(<<46>>), Native(<<97, 32, 98>>),
      Uncertain("Illegible", 1, <<>>), Uncertain("Illegible", 1, <<<<97>>>>),
      Uncertain("Illegible", 2, <<<<>>>>), Uncertain("Lacuna", 2, <<>>),
      FormatBreak("Line"), Anchor("One"),
      Correction(<<Native(<<97>>)>>),
      Correction(<<Native(<<97>>), Native(<<98>>)>>),
      Correction(<<Native(<<97, 32, 98>>), Native(<<98>>)>>),
      Correction(<<Native(<<97>>), Uncertain("Illegible", 1, <<<<97>>>>)>>) }

\* the texts whose corrections all have n versions
Texts(n) ==
    { t \in UNION { [1..k -> TextParts] : k \in 1..MaxTextParts } :
         \A j \in 1..Len(t) : t[j].kind = "Correction" => Len(t[j].versions) = n }

Text_parse(s, number_of_corrections) ==
    Text_parse_loop(<<>>, s, number_of_corrections, MaxParts)

(***************************************************************************)
(* The pipeline as a state machine: an input string (given, made from a     *)
(* comment-free text by inserting a comment, or rendered from a Text) is    *)
(* parsed part by part, flattened, and every hand is tokenised part by part *)
(* and supplied.                                                            *)
(***************************************************************************)
VARIABLES orig, base, plain, result, input, N, pc, remainder, parts, err, uniques, hand, idx, words,
          anchors, break_after_last, normalised,
          as_toml, visited, metadata, blocks, folios, lex_text, as_block_nr, res, word_idx, anchor_no

vars == <<orig, base, plain, result, input, N, pc, remainder, parts, err, uniques, hand, idx, words,
          anchors, break_after_last, normalised,
          as_toml, visited, metadata, blocks, folios, lex_text, as_block_nr, res, word_idx, anchor_no>>

\* the variables of the folio and lex file machines
folio_vars == <<as_toml, visited, metadata, blocks, folios>>

lex_vars == <<lex_text, as_block_nr, res, word_idx, anchor_no>>

FolioIdle ==
    /\ as_toml = <<>>
    /\ visited = {}
    /\ metadata = <<>>
    /\ blocks = <<>>
    /\ folios = <<>>

LexIdle ==
    /\ lex_text = <<>>
    /\ as_block_nr = 1
    /\ res = <<>>
    /\ word_idx = 0
    /\ anchor_no = 1

InitCommon ==
    /\ N \in 0..MaxN
    /\ result = <<>>
    /\ parts = <<>>
    /\ err = <<>>
    /\ uniques = <<>>
    /\ hand = 1
    /\ idx = 1
    /\ words = <<>>
    /\ anchors = <<>>
    /\ break_after_last = <<>>
    /\ normalised = <<>>
    /\ FolioIdle
    /\ LexIdle

InitString ==
    /\ input \in Inputs
    /\ remainder = input
    /\ orig = <<>>
    /\ base = <<>>
    /\ plain = <<>>
    /\ pc = "parse"

InitCommented ==
    /\ \E s \in Bases : \E k \in 0..Len(s) :
          /\ insertable(s, k)
          /\ base = <<s>>
          /\ input = insert_comment(s, k)
    /\ remainder = input
    /\ orig = <<>>
    /\ plain = <<>>
    /\ pc = "parse"

InitNonSemantic ==
    /\ \E s \in Bases : \E k \in 0..Len(s) : \E ns \in NonSemanticRuns :
          /\ outside_parameter(s, k)
          /\ plain = <<s>>
          /\ input = insert_at(s, k, ns)
    /\ remainder = input
    /\ orig = <<>>
    /\ base = <<>>
    /\ pc = "parse"

InitText ==
    /\ \E t \in Texts(N) : orig = <<t>>
    /\ base = <<>>
    /\ plain = <<>>
    /\ input = <<>>
    /\ remainder = <<>>
    /\ pc = "render"

Init == InitCommon /\ (InitString \/ InitCommented \/ InitNonSemantic \/ InitText)

\* Text::render
Render ==
    /\ pc = "render"
    /\ input' = Text_render(orig[1])
    /\ remainder' = input'
    /\ pc' = "parse"
    /\ UNCHANGED <<orig, base, plain, result, N, parts, err, uniques, hand, idx, words, anchors,
                   break_after_last, normalised, folio_vars, lex_vars>>

TextParse_on(r) ==
    /\ parts' = IF r.st = "ok" THEN Append(parts, r.part) ELSE parts
    /\ remainder' = IF r.st = "ok" THEN r.rem ELSE remainder
    /\ err' = IF r.st = "err" THEN <<r>> ELSE err
    /\ pc' = IF r.st = "err" THEN "error"
             ELSE IF r.st = "panic" THEN "parse_panic"
             ELSE IF r.rem = <<>> THEN "parsed" ELSE "parse"

\* one call of Part::parse in Text::parse
TextParse ==
    /\ pc = "parse"
    /\ Len(parts) < MaxParts
    /\ TextParse_on(Part_parse(remainder, N))
    /\ UNCHANGED <<orig, base, plain, result, input, N, uniques, hand, idx, words, anchors,
                   break_after_last, normalised, folio_vars, lex_vars>>

Flatten_on(f) ==
    /\ uniques' = IF f.st = "ok" THEN f.res ELSE uniques
    /\ pc' = IF f.st = "ok" THEN "split" ELSE "flatten_panic"

\* Vec::<UniqueText>::from(text)
Flatten ==
    /\ pc = "parsed"
    /\ Flatten_on(flatten(parts))
    /\ UNCHANGED <<orig, base, plain, result, input, N, remainder, parts, err, hand, idx, words, anchors,
                   break_after_last, normalised, folio_vars, lex_vars>>

SplitWords_on(r) ==
    /\ words' = IF r.st = "ok" THEN r.words ELSE words
    /\ anchors' = IF r.st = "ok" THEN r.anchors ELSE anchors
    /\ break_after_last' = IF r.st = "ok" THEN r.break_after_last ELSE break_after_last
    /\ idx' = IF r.st = "ok" THEN idx + 1 ELSE idx
    /\ pc' = IF r.st = "ok" THEN pc ELSE "split_panic"

\* one iteration of the loop of UniqueText::split_words for the current hand
SplitWords ==
    /\ pc = "split"
    /\ idx <= Len(uniques[hand])
    /\ SplitWords_on(split_words_step(words, anchors, break_after_last, uniques[hand][idx]))
    /\ UNCHANGED <<orig, base, plain, result, input, N, remainder, parts, err, uniques, hand, normalised, folio_vars, lex_vars>>

\* the end of split_words and into_anchored_normalised_text for the current
\* hand; auto_normalise then goes on to the next hand
Supply ==
    /\ pc = "split"
    /\ idx > Len(uniques[hand])
    /\ normalised' = Append(normalised, into_anchored_normalised_text(words, anchors))
    /\ words' = <<>>
    /\ anchors' = <<>>
    /\ break_after_last' = <<>>
    /\ idx' = 1
    /\ hand' = IF hand < Len(uniques) THEN hand + 1 ELSE hand
    /\ pc' = IF hand < Len(uniques) THEN "split" ELSE "done"
    /\ UNCHANGED <<orig, base, plain, result, input, N, remainder, parts, err, uniques, folio_vars, lex_vars>>

Next == Render \/ TextParse \/ Flatten \/ SplitWords \/ Supply

Spec == Init /\ [][Next]_vars

(***************************************************************************)
(* auto_normalise of a Text value that did not come from Text::parse (Text  *)
(* is Deserialize and From<Text> takes any Text): its corrections need not  *)
(* have the same number of versions.                                        *)
(***************************************************************************)
GivenTexts == UNION { [1..k -> TextParts] : k \in 1..MaxTextParts }

InitGiven ==
    /\ parts \in GivenTexts
    /\ N = 0
    /\ pc = "parsed"
    /\ input = <<>>
    /\ remainder = <<>>
    /\ orig = <<>>
    /\ base = <<>>
    /\ plain = <<>>
    /\ result = <<>>
    /\ err = <<>>
    /\ uniques = <<>>
    /\ hand = 1
    /\ idx = 1
    /\ words = <<>>
    /\ anchors = <<>>
    /\ break_after_last = <<>>
    /\ normalised = <<>>
    /\ FolioIdle
    /\ LexIdle

NextGiven == Flatten \/ SplitWords \/ Supply

SpecGiven == InitGiven /\ [][NextGiven]_vars

(***************************************************************************)
(* escape_one_if_required applied to one string                             *)
(***************************************************************************)
MaxHexDigits == 6

\* 0 1 4 F d
HexSample == {48, 49, 52, 70, 100}

\* nothing, a control point, a native scalar
Tails == { <<>>, <<40>>, <<115>> }

HexStrings == UNION { [1..k -> HexSample] : k \in 0..MaxHexDigits }

SampleScalars ==
    (9..126) \cup {127, 128, 167, 233, 2047, 2048, 8364, 65535, 65536, 1114111}

HexDigit(d) == IF d < 10 THEN 48 + d ELSE 55 + d

RECURSIVE ToHex(_, _)
ToHex(c, n) == IF n = 0 THEN <<>> ELSE Append(ToHex(c \div 16, n - 1), HexDigit(c % 16))

\* the canonical renderings of the scalar c
Canonical(c) ==
    IF ~is_control_point(c) THEN { <<c>> }
    ELSE { <<escape>> \o ToHex(c, n) : n \in {k \in {2, 4, 6} : c < 16 ^ k} }

EscapeInputs ==
    UNION { Canonical(c) : c \in SampleScalars }
       \cup { <<escape>> \o h \o tl : h \in HexStrings, tl \in Tails }

InitEscape ==
    /\ input \in EscapeInputs
    /\ pc = "escape"
    /\ result = <<>>
    /\ N = 0
    /\ parts = <<>>
    /\ remainder = <<>>
    /\ orig = <<>>
    /\ base = <<>>
    /\ plain = <<>>
    /\ err = <<>>
    /\ uniques = <<>>
    /\ hand = 1
    /\ idx = 1
    /\ words = <<>>
    /\ anchors = <<>>
    /\ break_after_last = <<>>
    /\ normalised = <<>>
    /\ FolioIdle
    /\ LexIdle

\* escape_one_if_required(input)
EscapeOne ==
    /\ pc = "escape"
    /\ result' = <<escape_one_if_required(input)>>
    /\ pc' = "escaped"
    /\ UNCHANGED <<orig, base, plain, input, N, remainder, parts, err, uniques, hand, idx,
                   words, anchors, break_after_last, normalised, folio_vars, lex_vars>>

NextEscape == EscapeOne

SpecEscape == InitEscape /\ [][NextEscape]_vars

(***************************************************************************)
(* Properties                                                               *)
(***************************************************************************)
ParseEnded == pc \notin {"render", "parse"}
ParseFailed == pc \in {"error", "parse_panic"}

\* the normal form in which two Texts are compared: Some("") proposals are
\* None, adjacent Native parts are one part, empty Native parts are dropped
NormalPresent(v) ==
    IF v.kind \in {"Illegible", "Lacuna"} /\ v.proposal = <<<<>>>>
    THEN Uncertain(v.kind, v.len, <<>>) ELSE v

NormalPart(x) ==
    IF x.kind = "Correction"
    THEN Correction([i \in 1..Len(x.versions) |-> NormalPresent(x.versions[i])])
    ELSE NormalPresent(x)

RECURSIVE Coalesce(_, _)
Coalesce(ps, acc) ==
    IF ps = <<>> THEN acc
    ELSE IF Head(ps).kind = "Native" /\ Head(ps).s = <<>> THEN Coalesce(Tail(ps), acc)
    ELSE IF Head(ps).kind = "Native" /\ acc # <<>> /\ acc[Len(acc)].kind = "Native"
         THEN Coalesce(Tail(ps), [acc EXCEPT ![Len(acc)] = Native(@.s \o Head(ps).s)])
    ELSE Coalesce(Tail(ps), Append(acc, NormalPart(Head(ps))))

NormalForm(ps) == Coalesce(ps, <<>>)

IsAnchor(x) == x.kind = "Anchor"
AnchorValues(ps) == [i \in 1..Len(SelectSeq(ps, IsAnchor)) |-> SelectSeq(ps, IsAnchor)[i].value]
Prefix(ps, n) == [j \in 1..n |-> ps[j]]

\* C1: Text::parse terminates: every call of Part::parse after which the loop
\* goes on has consumed input, so the remainder is not the one it began with
\* (Part::parse is a function of the remainder and N: a call that leaves the
\* remainder as it was is repeated forever).
C1_EveryPartConsumes == [][(pc = "parse" /\ pc' = "parse") => remainder' # remainder]_vars

\* C2: flattening, tokenisation and supply of a Text that Text::parse returned
\* never panic.
C2_NormaliseTotal == pc \notin {"flatten_panic", "split_panic"}

\* C3: a comment inserted into a comment-free text that parses, at a position
\* outside a parameter body, leaves the parse successful and the parsed Text
\* the same up to the normal form.
C3_CommentTransparent ==
    (base # <<>> /\ ParseEnded /\ Text_parse(base[1], N).st = "ok")
       => (~ParseFailed /\ NormalForm(parts) = NormalForm(Text_parse(base[1], N).parts))

\* C4: in running text an escaped control point does not start an illegible,
\* lacuna, anchor, format-break or correction part: the part read from a
\* remainder that begins with the escape and such a control point is Native.
C4_EscapedIsLiteral ==
    [][(/\ pc = "parse"
        /\ Len(remainder) >= 2
        /\ remainder[1] = escape
        /\ remainder[2] \in {illegible, lacuna, anchor, format_break, correction}
        /\ Len(parts') = Len(parts) + 1)
       => parts'[Len(parts')].kind = "Native"]_vars

\* C5: parsing the rendering of a Text, with N the number of versions of its
\* corrections, succeeds and gives the Text back up to the normal form.
C5_ParseRender ==
    (orig # <<>> /\ ParseEnded) => (~ParseFailed /\ NormalForm(parts) = NormalForm(orig[1]))

\* C6: every Correction part that Text::parse has read has exactly N versions.
C6_CorrectionHasNVersions ==
    \A j \in 1..Len(parts) : parts[j].kind = "Correction" => Len(parts[j].versions) = N

C6_Witness ==
    /\ pc = "parsed"
    /\ \E j \in 1..Len(parts) : parts[j].kind = "Correction"

\* C7: flattening a Text parsed with correction count N (at least 1) yields
\* exactly N UniqueTexts, also when the Text holds no Correction.
C7_FlattenArity == (uniques # <<>> /\ N >= 1) => Len(uniques) = N

\* C8: every UniqueText produced by flattening has the parts of the Text in
\* order: a part that is no Correction is copied, a Correction is replaced in
\* output i by its versions[i], and no Correction remains.
C8_FlattenIsomorphic ==
    \A i \in 1..Len(uniques) :
       /\ Len(uniques[i]) = Len(parts)
       /\ \A j \in 1..Len(parts) :
             /\ uniques[i][j].kind # "Correction"
             /\ parts[j].kind # "Correction" => uniques[i][j] = parts[j]
             /\ parts[j].kind = "Correction" => uniques[i][j] = parts[j].versions[i]

C8_Witness ==
    /\ Len(uniques) = 2
    /\ \E j \in 1..Len(parts) :
          /\ parts[j].kind = "Correction"
          /\ parts[j].versions[1] # parts[j].versions[2]
    /\ \E j \in 1..Len(parts) : parts[j].kind \in {"Illegible", "Anchor", "Native"}

AnchorsOrdered(a, nwords, ps) ==
    /\ \A i \in 1..Len(a) : \A j \in i..Len(a) : a[i][2] <= a[j][2]
    /\ \A i \in 1..Len(a) : a[i][2] \in 0..nwords
    /\ [i \in 1..Len(a) |-> a[i][1]] = AnchorValues(ps)

\* C9: the anchor indices recorded by split_words are non-decreasing, lie in
\* [0, number of words] and follow the order of the Anchor parts, during the
\* loop and in every output.
C9_AnchorsMonotone ==
    /\ pc = "split" => AnchorsOrdered(anchors, Len(words), Prefix(uniques[hand], idx - 1))
    /\ \A h \in 1..Len(normalised) :
          AnchorsOrdered(normalised[h].anchor_positions, Len(normalised[h].text), uniques[h])

C9_Witness ==
    \E h \in 1..Len(normalised) :
       /\ Len(normalised[h].anchor_positions) = 2
       /\ normalised[h].anchor_positions[1][2] < normalised[h].anchor_positions[2][2]
       /\ normalised[h].anchor_positions[1][1] # normalised[h].anchor_positions[2][1]

\* C10: after every processed prefix of the parts and in every output, each
\* Word of the tokeniser has at least one part.
C10_NoEmptyWord ==
    /\ \A i \in 1..Len(words) : Len(words[i].parts) >= 1
    /\ \A h \in 1..Len(normalised) :
          \A i \in 1..Len(normalised[h].text) : Len(normalised[h].text[i][1].parts) >= 1

C10_Witness ==
    /\ pc = "split"
    /\ idx > 2
    /\ \E i \in 1..Len(words) : Len(words[i].parts) >= 2
    /\ Len(words) >= 2

IsBoundary(c) == c = WORD_DIVISOR \/ c \in PUNCTUATION
IsPunctuationAt(s, k) == s[k] \in PUNCTUATION
NotDivisor(c) == c # WORD_DIVISOR

\* the positions at which a maximal run without divisor and punctuation starts
RunStarts(s) == { k \in 1..Len(s) : ~IsBoundary(s[k]) /\ (k = 1 \/ IsBoundary(s[k - 1])) }
PunctuationPositions(s) == { k \in 1..Len(s) : IsPunctuationAt(s, k) }

RECURSIVE NativeWordsText(_)
NativeWordsText(ws) ==
    IF ws = <<>> THEN <<>> ELSE Head(ws).parts[1].s \o NativeWordsText(Tail(ws))

\* the words ws are the tokens of the native string s
IsTokenisationOf(ws, s) ==
    /\ \A i \in 1..Len(ws) :
          /\ Len(ws[i].parts) = 1
          /\ ws[i].parts[1].kind = "Native"
          /\ ws[i].parts[1].s # <<>>
          /\ \/ Len(ws[i].parts[1].s) = 1 /\ ws[i].parts[1].s[1] \in PUNCTUATION
             \/ \A k \in 1..Len(ws[i].parts[1].s) : ~IsBoundary(ws[i].parts[1].s[k])
    /\ NativeWordsText(ws) = SelectSeq(s, NotDivisor)
    /\ Len(ws) = Cardinality(PunctuationPositions(s)) + Cardinality(RunStarts(s))

SingleNativeSplit ==
    /\ pc = "split"
    /\ idx = 2
    /\ Len(uniques[hand]) = 1
    /\ uniques[hand][1].kind = "Native"

\* C11: the words of a single native string are its punctuation scalars, each
\* a word of its own, and the maximal runs between divisors and punctuation,
\* in input order.
C11_PunctuationSplits == SingleNativeSplit => IsTokenisationOf(words, uniques[hand][1].s)

C11_Witness ==
    /\ SingleNativeSplit
    /\ Len(words) = 4
    /\ words[2].parts[1].s = <<44>>
    /\ words[1].parts[1].s = <<97>>

\* C12: the surface string supplied for every word of every hand is not empty
\* and holds no word divisor.
C12_SurfaceNonEmpty ==
    \A h \in 1..Len(normalised) : \A i \in 1..Len(normalised[h].text) :
       /\ normalised[h].text[i][2] # <<>>
       /\ ~Contains(normalised[h].text[i][2], WORD_DIVISOR)

\* C13: non-semantic scalars inserted into a text that parses, at a position
\* outside a parameter body, leave the parse successful and the parsed Text
\* the same up to the normal form.
C13_NonSemanticTransparent ==
    (plain # <<>> /\ ParseEnded /\ Text_parse(plain[1], N).st = "ok")
       => (~ParseFailed /\ NormalForm(parts) = NormalForm(Text_parse(plain[1], N).parts))

\* the number of bytes of the input that the parts read so far have consumed
Consumed == str_len(input) - str_len(remainder)

\* C14: the location of the error of Text::parse is a byte offset into the
\* whole input: it does not lie before the part in which parsing failed.
C14_LocationInWholeInput == pc = "error" => err[1].location >= Consumed

\* index of the stop_param that closes the version opened before j, 0 when
\* a control point or the end of the text comes first
RECURSIVE version_end(_, _)
version_end(s, j) ==
    IF j > Len(s) THEN 0
    ELSE IF s[j] = stop_param THEN j
    ELSE IF is_control_point(s[j]) THEN 0
    ELSE version_end(s, j + 1)

\* the number of parenthesised versions written from scalar i on, -1 when
\* one of them is not closed
RECURSIVE written_versions(_, _)
written_versions_on(s, i, j, k) == IF k < 0 THEN -1 ELSE k + 1

written_versions(s, i) ==
    IF i > Len(s) \/ s[i] # start_param THEN 0
    ELSE IF version_end(s, i + 1) = 0 THEN -1
    ELSE written_versions_on(s, i, version_end(s, i + 1),
                             written_versions(s, version_end(s, i + 1) + 1))

CorrectionAhead(k) ==
    /\ pc = "parse"
    /\ remainder # <<>>
    /\ remainder[1] = correction
    /\ written_versions(remainder, 2) = k

\* C15: a correction written with K versions, K different from N, makes
\* parsing fail with IncorrectNumberOfCorrections(N, K).
C15_IncorrectNumberReported ==
    [][\A k \in 1..MaxParts :
          (CorrectionAhead(k) /\ k # N /\ pc' # pc)
             => (pc' = "error"
                 /\ err'[1].reason = <<"IncorrectNumberOfCorrections", N, k>>)]_vars

\* C16: flattening a Text whose longest Correction has K versions completes
\* with K texts; a Correction with L < K versions gives versions[i] to the
\* first L texts and an empty Native to the others.
C16_ShortCorrectionPadded ==
    /\ pc # "flatten_panic"
    /\ uniques # <<>> =>
          /\ Len(uniques) = num_of_corrections(parts)
          /\ \A i \in 1..Len(uniques) : \A j \in 1..Len(parts) :
                parts[j].kind = "Correction" =>
                   uniques[i][j] = IF i <= Len(parts[j].versions)
                                   THEN parts[j].versions[i] ELSE Native(<<>>)

\* C17: every Illegible and Lacuna part that Text::parse has read has a len
\* in 1..255.
C17_LenPositive ==
    \A j \in 1..Len(parts) :
       parts[j].kind \in {"Illegible", "Lacuna"} => parts[j].len \in 1..255

\* the surface of one part as the claim words it
ExpectedPartSurface(x) ==
    CASE x.kind = "Native" -> x.s
      [] x.kind # "Native" /\ x.proposal # <<>> -> x.proposal[1]
      [] x.kind = "Illegible" /\ x.proposal = <<>> -> [k \in 1..x.len |-> illegible]
      [] x.kind = "Lacuna" /\ x.proposal = <<>> -> [k \in 1..x.len |-> lacuna]

RECURSIVE ExpectedSurface(_, _)
ExpectedSurface(ps, n) ==
    IF n = 0 THEN <<>> ELSE ExpectedSurface(ps, n - 1) \o ExpectedPartSurface(ps[n])

Supplied(t, i) == t.text[i][2]

\* C18: the step that supplies a hand pairs every word, unchanged and in order,
\* with the concatenation of the surfaces of its parts, and keeps the anchor
\* positions.
C18_SurfaceSupply ==
    [][Len(normalised') = Len(normalised) + 1 =>
          /\ normalised'[Len(normalised')].anchor_positions = anchors
          /\ Len(normalised'[Len(normalised')].text) = Len(words)
          /\ \A i \in 1..Len(words) :
                /\ normalised'[Len(normalised')].text[i][1] = words[i]
                /\ Supplied(normalised'[Len(normalised')], i)
                      = ExpectedSurface(words[i].parts, Len(words[i].parts))]_vars

C18_Witness ==
    \E h \in 1..Len(normalised) :
       /\ Len(normalised[h].text) = 2
       /\ Len(normalised[h].text[1][1].parts) = 2
       /\ Supplied(normalised[h], 1) = <<97, 97>>
       /\ Supplied(normalised[h], 2) = <<lacuna, lacuna>>

\* C19: escape_one_if_required applied to a canonical rendering of a scalar c
\* returns c.
C19_EscapeRoundTrip ==
    \A c \in SampleScalars :
       (pc = "escaped" /\ input \in Canonical(c))
          => (result[1].st = "ok" /\ result[1].c = c)

\* n hex digits follow the escape and denote a Unicode scalar value
Yields(s, n) ==
    /\ Len(s) >= n + 1
    /\ \A i \in 2..(n + 1) : is_ascii_hexdigit(s[i])
    /\ char_from_u32(from_str_radix16(SubSeq(s, 2, n + 1), 0)) # <<>>

Yielded(r, s, n) ==
    /\ r.st = "ok"
    /\ r.c = from_str_radix16(SubSeq(s, 2, n + 1), 0)
    /\ r.rem = SubSeq(s, n + 2, Len(s))
    /\ r.adv = n + 1

\* C20: after an escape that is not followed by a control point the longest
\* of six, four and two hex digits that denotes a scalar value is read, and
\* the read fails only when none of the three does.
C20_LongestHexWins ==
    (pc = "escaped" /\ Len(input) >= 2 /\ input[1] = escape /\ ~is_control_point(input[2]))
       => IF Yields(input, 6) THEN Yielded(result[1], input, 6)
          ELSE IF Yields(input, 4) THEN Yielded(result[1], input, 4)
          ELSE IF Yields(input, 2) THEN Yielded(result[1], input, 2)
          ELSE result[1].st = "err"

\* the segments of a text in canonical form for correction count n
CanonicalSegments(n) ==
    { <<97>>, <<32>>, <<46>>, <<44, 98>>, <<94, 40, 49, 41, 40, 97, 41>>, <<126, 40, 50, 41>>,
      <<167, 40, 49, 41>>, <<167, 40, 50, 41>>, <<47, 40, 108, 105, 110, 101, 41>> }
       \cup (IF n = 2 THEN { <<38, 40, 97, 41, 40, 98, 41>> } ELSE {})

IsPrefix(x, s) == Len(x) <= Len(s) /\ SubSeq(s, 1, Len(x)) = x

RECURSIVE IsCanonical(_, _)
IsCanonical(s, n) ==
    \/ s = <<>>
    \/ \E x \in CanonicalSegments(n) : IsPrefix(x, s) /\ IsCanonical(Drop(s, Len(x)), n)

\* C21: an input in canonical form parses, and the rendering of the parsed
\* Text is the input.
C21_CanonicalRoundTrip ==
    IsCanonical(input, N) =>
       /\ ~ParseFailed
       /\ (pc = "parse" => Len(parts) < MaxParts)
       /\ (ParseEnded /\ pc # "escaped") => Text_render(parts) = input

C21_Witness ==
    /\ pc = "parsed"
    /\ IsCanonical(input, N)
    /\ Len(parts) = 3
    /\ parts[1].kind = "Anchor" /\ parts[1].value = "Two"
    /\ parts[2].kind = "Illegible" /\ parts[2].proposal # <<>>
    /\ parts[3].kind = "Correction"

\* a step of the loop of split_words that stays in the loop
SplitStep == pc = "split" /\ pc' = "split" /\ idx' = idx + 1

\* C22: the words that precede an anchor are not changed by the parts that
\* follow the anchor: no word holds parts from both sides of it.
C22_AnchorCutsWord ==
    [][SplitStep =>
          \A i \in 1..Len(anchors) : \A k \in 1..anchors[i][2] : words'[k] = words[k]]_vars

DivisorOnly(x) ==
    /\ x.kind = "Native"
    /\ x.s # <<>>
    /\ \A k \in 1..Len(x.s) : x.s[k] = WORD_DIVISOR

\* C24: the part that follows a native part made only of word divisors is
\* not merged into a word made before that part.
C24_DivisorOnlyPartDivides ==
    [][(SplitStep /\ idx >= 2 /\ DivisorOnly(uniques[hand][idx - 1]))
          => \A k \in 1..Len(words) : words'[k] = words[k]]_vars

\* a surface part that carries a string: Native, or Illegible/Lacuna with proposal
HasString(x) ==
    \/ x.kind = "Native"
    \/ x.kind \in {"Illegible", "Lacuna"} /\ x.proposal # <<>>

StringOf(x) == IF x.kind = "Native" THEN x.s ELSE x.proposal[1]

EndsOpen(x) ==
    HasString(x) /\ StringOf(x) # <<>> /\ ~IsBoundary(StringOf(x)[Len(StringOf(x))])

BeginsOpen(x) == HasString(x) /\ StringOf(x) # <<>> /\ ~IsBoundary(StringOf(x)[1])

\* the first maximal run of a string that begins with no boundary
FirstRun(s) ==
    SubSeq(s, 1, CHOOSE n \in 1..Len(s) :
                    /\ \A k \in 1..n : ~IsBoundary(s[k])
                    /\ (n = Len(s) \/ IsBoundary(s[n + 1])))

PartOfRun(x, run) ==
    IF x.kind = "Native" THEN [kind |-> "Native", s |-> run]
    ELSE [kind |-> x.kind, len |-> str_len(run), proposal |-> <<run>>]

WordCount(s) == Cardinality(PunctuationPositions(s)) + Cardinality(RunStarts(s))

NoBoundaryAt(u, i) == i >= 2 /\ i <= Len(u) /\ EndsOpen(u[i - 1]) /\ BeginsOpen(u[i])

\* C23: when two consecutive surface parts meet with no boundary, the first
\* word of the later part continues the last word of the earlier part and the
\* other words of the later part follow as words of their own.
C23_WordFusion ==
    [][(SplitStep /\ NoBoundaryAt(uniques[hand], idx)) =>
          /\ words # <<>>
          /\ Len(words') = Len(words) + WordCount(StringOf(uniques[hand][idx])) - 1
          /\ \A k \in 1..(Len(words) - 1) : words'[k] = words[k]
          /\ words'[Len(words)].parts =
                Append(words[Len(words)].parts,
                       PartOfRun(uniques[hand][idx], FirstRun(StringOf(uniques[hand][idx]))))
          /\ \A k \in (Len(words) + 1)..Len(words') : Len(words'[k].parts) = 1]_vars

C23_Witness ==
    /\ pc = "split"
    /\ idx = 4
    /\ Len(words) = 1
    /\ Len(words[1].parts) = 3
    /\ words[1].parts[2].kind = "Illegible"

NonEmptyString(x) == HasString(x) /\ StringOf(x) # <<>>

\* C25: for a non-empty native string or proposal the right boundary divides
\* exactly when the last scalar of the string is a word divisor or a
\* punctuation scalar, also after two or more divisors or only divisors.
C25_RightDivides ==
    [][(SplitStep /\ NonEmptyString(uniques[hand][idx])) =>
          break_after_last' =
             << IsBoundary(StringOf(uniques[hand][idx])[Len(StringOf(uniques[hand][idx]))]) >>]_vars

\* C26: a part whose string begins with a word divisor or a punctuation scalar
\* divides on the left: nothing of it is appended to a word made before it.
C26_LeftDivides ==
    [][(SplitStep /\ idx >= 2 /\ NonEmptyString(uniques[hand][idx])
           /\ IsBoundary(StringOf(uniques[hand][idx])[1])) =>
          \A k \in 1..Len(words) : words'[k] = words[k]]_vars

NotFormatBreak(x) == x.kind # "FormatBreak"

\* the loop of split_words run over a list of parts from a given state
RECURSIVE SplitFrom(_, _)
SplitFrom(state, ps) ==
    IF ps = <<>> \/ state.st # "ok" THEN state
    ELSE SplitFrom(split_words_step(state.words, state.anchors, state.break_after_last, Head(ps)),
                   Tail(ps))

\* the result of split_words for the first n parts with the format breaks removed
SplitWithoutFormatBreaks(u, n) ==
    SplitFrom(SplitState(<<>>, <<>>, <<>>), SelectSeq(SubSeq(u, 1, n), NotFormatBreak))

\* C27: the words and anchor positions that split_words has built are those it
\* builds from the same parts with every FormatBreak part removed.
C27_FormatBreakIgnored ==
    /\ pc = "split" =>
          SplitWithoutFormatBreaks(uniques[hand], idx - 1)
             = SplitState(words, anchors, break_after_last)
    /\ pc = "split_panic" => SplitWithoutFormatBreaks(uniques[hand], idx).st = "panic"

C27_Witness ==
    /\ pc = "split"
    /\ idx > Len(uniques[hand])
    /\ \E i \in 2..(Len(uniques[hand]) - 1) :
          /\ uniques[hand][i].kind = "FormatBreak"
          /\ uniques[hand][i - 1].kind = "Native"
          /\ uniques[hand][i + 1].kind = "Native"
    /\ Len(words) = 1
    /\ Len(words[1].parts) = 2

(***************************************************************************)
(* Folio transcripts (transcribe.rs): the table of a folio file is visited  *)
(* key by key, every numbered block is parsed, and the folio is normalised  *)
(* into one folio per version.  Dialect names are TLA+ strings, keys and    *)
(* transcripts are sequences of scalars.                                    *)
(***************************************************************************)
\* "metadata"
metadata_key == <<109, 101, 116, 97, 100, 97, 116, 97>>

\* the order of the String keys of the table
RECURSIVE LexLess(_, _)
LexLess(a, b) ==
    IF a = <<>> THEN b # <<>>
    ELSE IF b = <<>> THEN FALSE
    ELSE IF Head(a) # Head(b) THEN Head(a) < Head(b)
    ELSE LexLess(Tail(a), Tail(b))

\* the key the iteration over the table visits next
next_key(keys) == CHOOSE k \in keys : \A j \in keys \ {k} : LexLess(k, j)

FolioError(reason, detail) == [st |-> "err", reason |-> reason, detail |-> detail]

Language_from_name(s) == IF s = "example" THEN <<"Example">> ELSE <<>>

AnchorDialect_get_by_name(s) == IF s = "example" THEN <<"Example">> ELSE <<>>

AtgDialectList_from_str(s) == IF s = "example" THEN <<"Example">> ELSE <<>>

select_atg(block, meta) == IF block.atg # <<>> THEN block.atg ELSE meta.default_atg

select_language(block, meta, atg) ==
    IF block.language # <<>> THEN block.language[1]
    ELSE IF meta.default_language # <<>> THEN meta.default_language[1]
    ELSE atg

select_anchor(block, meta) == IF block.anchor # <<>> THEN block.anchor ELSE meta.default_anchor

select_dialects_on(atg, language, anchor_name) ==
    IF atg = <<>> THEN FolioError("NoAtg", <<>>)
    ELSE IF Language_from_name(language) = <<>> THEN FolioError("LanguageUnknown", language)
    ELSE IF anchor_name = <<>> THEN FolioError("NoAnchor", <<>>)
    ELSE IF AnchorDialect_get_by_name(anchor_name[1]) = <<>>
         THEN FolioError("AnchorDialectUnknown", anchor_name[1])
    ELSE [st |-> "ok", atg |-> atg[1], language |-> Language_from_name(language)[1],
          anchor_dialect |-> AnchorDialect_get_by_name(anchor_name[1])[1]]

select_dialects(block, meta) ==
    select_dialects_on(select_atg(block, meta),
                       IF select_atg(block, meta) = <<>> THEN ""
                       ELSE select_language(block, meta, select_atg(block, meta)[1]),
                       select_anchor(block, meta))

AtgBlock(text, language, atg_dialect) ==
    [text |-> text, language |-> language, atg_dialect |-> atg_dialect]

\* the match on the result of parse_by_dialect
folio_block_text(key, d, t) ==
    IF t.st = "ok" THEN [st |-> "ok", block |-> AtgBlock(t.parts, d.language, "Example")]
    ELSE IF t.st = "err" THEN FolioError("TranscriptUnparsable", <<key, t>>)
    ELSE t

folio_block_dialects(key, value, number_of_corrections, d) ==
    IF d.st # "ok" THEN d
    ELSE IF AtgDialectList_from_str(d.atg) = <<>> THEN FolioError("AtgDialectUnknown", d.atg)
    ELSE folio_block_text(key, d, Text_parse(value.transcript, number_of_corrections))

\* the else branch of the loop of from_folio_file_content: a key that is not
\* "metadata", met when blocks_len blocks have been pushed
folio_block(key, value, blocks_len, meta, number_of_corrections) ==
    IF parse_u8(key) = <<>> THEN FolioError("BlockNameNotDecimal", key)
    ELSE IF parse_u8(key)[1] # blocks_len + 1
         THEN FolioError("BlockNameNotInAscendingOrder", parse_u8(key)[1])
    ELSE IF value.kind # "block" THEN FolioError("Toml", key)
    ELSE folio_block_dialects(key, value, number_of_corrections, select_dialects(value, meta))

\* Example::normalise of the language
Example_normalise(text) ==
    [text |-> [i \in 1..Len(text.text) |->
                  [annotated_form |-> text.text[i][1], display_form |-> text.text[i][2],
                   compare_form |-> <<>>]],
     anchor_positions |-> text.anchor_positions]

NormalisedAtgBlock(text, language, atg_dialect) ==
    [text |-> text, language |-> language, atg_dialect |-> atg_dialect]

UniqueAtgBlock_normalise_on(b, s) ==
    IF s.st # "ok" THEN s
    ELSE [st |-> "ok",
          block |-> NormalisedAtgBlock(
                       Example_normalise(into_anchored_normalised_text(s.words, s.anchors)),
                       b.language, b.atg_dialect)]

\* UniqueAtgBlock::normalise of one version u of the block b
UniqueAtgBlock_normalise(b, u) ==
    UniqueAtgBlock_normalise_on(b, SplitFrom(SplitState(<<>>, <<>>, <<>>), u))

\* collect() of an iterator whose items may panic
collect_blocks(rs) ==
    IF \E i \in 1..Len(rs) : rs[i].st # "ok" THEN Panic
    ELSE [st |-> "ok", res |-> [i \in 1..Len(rs) |-> rs[i].block]]

into_normalised_blocks_on(b, f) ==
    IF f.st # "ok" THEN f
    ELSE collect_blocks([i \in 1..Len(f.res) |-> UniqueAtgBlock_normalise(b, f.res[i])])

\* AtgBlock::into_normalised_blocks, collected
into_normalised_blocks(b) == into_normalised_blocks_on(b, flatten(b.text))

NormalisedFolioTranscript(meta, bs) == [metadata |-> meta, blocks |-> bs]

\* the transposition of FolioTranscript::normalise; n.next().expect(..) fails
\* when a block has fewer versions than the first block
FolioTranscript_normalise_on(meta, bs) ==
    IF \E i \in 1..Len(bs) : bs[i].st # "ok" THEN Panic
    ELSE IF bs = <<>> THEN [st |-> "ok", res |-> <<NormalisedFolioTranscript(meta, <<>>)>>]
    ELSE IF \E i \in 1..Len(bs) : Len(bs[i].res) < Len(bs[1].res) THEN Panic
    ELSE [st |-> "ok",
          res |-> [v \in 1..Len(bs[1].res) |->
                      NormalisedFolioTranscript(meta, [i \in 1..Len(bs) |-> bs[i].res[v]])]]

FolioTranscript_normalise(meta, bs) ==
    FolioTranscript_normalise_on(meta, [i \in 1..Len(bs) |-> into_normalised_blocks(bs[i])])

\* bounds and inputs of the folio machine
MaxBlocks == 10
MaxVaried == 2

\* the defaults of the witness; its number of corrections is N
witness_metadata ==
    [default_atg |-> <<"example">>, default_language |-> <<>>, default_anchor |-> <<"example">>]

TranscriptBlock(atg, anchor_name, language, transcript) ==
    [kind |-> "block", atg |-> atg, anchor |-> anchor_name, language |-> language,
     transcript |-> transcript]

MetadataValue == [kind |-> "metadata", transcriber |-> "t", editors |-> <<>>]

PlainBlock == TranscriptBlock(<<>>, <<>>, <<>>, <<97>>)

\* a   &(a)(b)   a§(1) a.   ^
FolioTranscripts ==
    { <<97>>, <<38, 40, 97, 41, 40, 98, 41>>, <<97, 167, 40, 49, 41, 32, 97, 46>>, <<94>> }

BlockValues ==
    { TranscriptBlock(<<>>, <<>>, <<>>, s) : s \in FolioTranscripts }
       \cup { TranscriptBlock(<<"latin">>, <<>>, <<"example">>, <<97>>),
              TranscriptBlock(<<>>, <<>>, <<"latin">>, <<97>>),
              TranscriptBlock(<<>>, <<"latin">>, <<>>, <<97>>),
              MetadataValue }

DecimalNames(n) == { u8_to_string(i) : i \in 1..n }

\* 1,3   2   a   01   +1   0   1,1a
OddKeySets ==
    { {<<49>>, <<51>>}, {<<50>>}, {<<97>>}, {<<48, 49>>}, {<<43, 49>>}, {<<48>>},
      {<<49>>, <<49, 97>>} }

FolioKeySets == { DecimalNames(n) : n \in 0..MaxBlocks } \cup OddKeySets

Table(f, has_metadata) ==
    [k \in DOMAIN f \cup (IF has_metadata THEN {metadata_key} ELSE {}) |->
        IF k = metadata_key THEN MetadataValue ELSE f[k]]

Tables ==
    UNION { { Table(f, h) : f \in [K -> IF Cardinality(K) <= MaxVaried THEN BlockValues
                                         ELSE {PlainBlock}],
                            h \in BOOLEAN } : K \in FolioKeySets }

PipelineIdle ==
    /\ input = <<>>
    /\ remainder = <<>>
    /\ orig = <<>>
    /\ base = <<>>
    /\ plain = <<>>
    /\ result = <<>>
    /\ parts = <<>>
    /\ err = <<>>
    /\ uniques = <<>>
    /\ hand = 1
    /\ idx = 1
    /\ words = <<>>
    /\ anchors = <<>>
    /\ break_after_last = <<>>
    /\ normalised = <<>>

pipeline_vars ==
    <<orig, base, plain, result, input, remainder, parts, uniques, hand, idx, words, anchors,
      break_after_last, normalised>>

InitFolio ==
    /\ as_toml \in Tables
    /\ N \in 0..MaxN
    /\ visited = {}
    /\ metadata = <<>>
    /\ blocks = <<>>
    /\ folios = <<>>
    /\ pc = "folio"
    /\ PipelineIdle
    /\ LexIdle

FolioBlock_on(r) ==
    /\ blocks' = IF r.st = "ok" THEN Append(blocks, r.block) ELSE blocks
    /\ err' = IF r.st = "err" THEN <<r>> ELSE err
    /\ pc' = IF r.st = "ok" THEN pc ELSE IF r.st = "err" THEN "folio_error" ELSE "folio_panic"
    /\ metadata' = metadata

\* metadata = value.try_into()?
FolioMetadata_on(value) ==
    /\ metadata' = IF value.kind = "metadata" THEN <<value>> ELSE metadata
    /\ err' = IF value.kind = "metadata" THEN err ELSE <<FolioError("Toml", metadata_key)>>
    /\ pc' = IF value.kind = "metadata" THEN pc ELSE "folio_error"
    /\ blocks' = blocks

FolioEntry_at(key) ==
    /\ visited' = visited \cup {key}
    /\ IF key = metadata_key THEN FolioMetadata_on(as_toml[key])
       ELSE FolioBlock_on(folio_block(key, as_toml[key], Len(blocks), witness_metadata, N))

\* one iteration of the loop of from_folio_file_content
FolioEntry ==
    /\ pc = "folio"
    /\ visited # DOMAIN as_toml
    /\ FolioEntry_at(next_key(DOMAIN as_toml \ visited))
    /\ UNCHANGED <<as_toml, folios, N, pipeline_vars, lex_vars>>

\* the end of from_folio_file_content: metadata.ok_or(NoMetadata)
FolioEnd ==
    /\ pc = "folio"
    /\ visited = DOMAIN as_toml
    /\ pc' = IF metadata = <<>> THEN "folio_error" ELSE "folio_ok"
    /\ err' = IF metadata = <<>> THEN <<FolioError("NoMetadata", <<>>)>> ELSE err
    /\ UNCHANGED <<as_toml, visited, metadata, blocks, folios, N, pipeline_vars, lex_vars>>

FolioNormalise_on(r) ==
    /\ folios' = IF r.st = "ok" THEN r.res ELSE folios
    /\ pc' = IF r.st = "ok" THEN "normalised" ELSE "normalise_panic"

\* FolioTranscript::normalise
FolioNormalise ==
    /\ pc = "folio_ok"
    /\ FolioNormalise_on(FolioTranscript_normalise(metadata[1], blocks))
    /\ UNCHANGED <<as_toml, visited, metadata, blocks, err, N, pipeline_vars, lex_vars>>

NextFolio == FolioEntry \/ FolioEnd \/ FolioNormalise

SpecFolio == InitFolio /\ [][NextFolio]_vars

\* C28: normalise of a folio that from_folio_file_content returned does not
\* panic, every block flattens to as many versions as there are folios in the
\* result, and every folio of the result holds, in block order, the
\* normalised block of its version for every block of the folio.
C28_NormaliseTotal ==
    /\ pc # "normalise_panic"
    /\ pc = "normalised" =>
          /\ \A i \in 1..Len(blocks) : Len(flatten(blocks[i].text).res) = Len(folios)
          /\ \A v \in 1..Len(folios) :
                /\ Len(folios[v].blocks) = Len(blocks)
                /\ \A i \in 1..Len(blocks) :
                      folios[v].blocks[i] = into_normalised_blocks(blocks[i]).res[v]

NameKeys == DOMAIN as_toml \ {metadata_key}

\* a folio file in which nothing but the block names can fail
ValuesFine ==
    /\ metadata_key \in DOMAIN as_toml
    /\ \A k \in NameKeys : as_toml[k] \in BlockValues /\ as_toml[k].kind = "block"
    /\ \A k \in NameKeys : as_toml[k] = PlainBlock

GoodNames == \E n \in 0..255 : NameKeys = DecimalNames(n)

NameErrors == {"BlockNameNotDecimal", "BlockNameNotInAscendingOrder"}

\* C29: the block names of a folio are accepted exactly when they are the
\* decimal names 1, 2, ..., n; the blocks are then in numeric order, and any
\* other set of names fails with one of the two block name errors.
C29_BlockNames ==
    (ValuesFine /\ pc \in {"folio_ok", "folio_error"}) =>
       IF GoodNames
       THEN /\ pc = "folio_ok"
            /\ Len(blocks) = Cardinality(NameKeys)
            /\ \A i \in 1..Len(blocks) :
                  blocks[i].text = Text_parse(as_toml[u8_to_string(i)].transcript, N).parts
       ELSE pc = "folio_error" /\ err[1].reason \in NameErrors

(***************************************************************************)
(* The lex file (atg/normalize/specialize.rs): the rendering of a           *)
(* NonAgnosticAnchoredText.  The output is kept as its sequence of lines.   *)
(***************************************************************************)
WordNormalForm(annotated_form, display_form, compare_form) ==
    [annotated_form |-> annotated_form, display_form |-> display_form,
     compare_form |-> compare_form]

NonAgnosticAnchoredText(text, anchor_positions) ==
    [text |-> text, anchor_positions |-> anchor_positions]

\* WordNormalForm::render_for_lex_file
WordNormalForm_render_for_lex_file(w, nr, k) ==
    << [line |-> "section", block |-> nr, word |-> k],
       [line |-> "display_form", value |-> w.display_form] >>
       \o (IF w.compare_form = <<>> THEN <<>>
           ELSE << [line |-> "compare_form", value |-> w.compare_form[1]] >>)
       \o << [line |-> "lex"], [line |-> "morph"] >>

\* what the loops push to res: the display forms of the words after from up to to
RECURSIVE display_forms(_, _, _)
display_forms(text, from, to) ==
    IF from >= to THEN <<>>
    ELSE <<text[from + 1].display_form>> \o display_forms(text, from + 1, to)

RECURSIVE words_till_anchor(_, _, _, _)
\* words_till_anchor that names the sections by the zero-based word_idx
words_till_anchor_zero_based(text, nr, from, to) ==
    IF from >= to THEN <<>>
    ELSE WordNormalForm_render_for_lex_file(text[from + 1], nr, from)
            \o << [line |-> "empty"] >>
            \o words_till_anchor(text, nr, from + 1, to)

words_till_anchor(text, nr, from, to) ==
    IF from >= to THEN <<>>
    ELSE WordNormalForm_render_for_lex_file(text[from + 1], nr, from + 1)
            \o << [line |-> "empty"] >>
            \o words_till_anchor(text, nr, from + 1, to)

\* the body of the loop over anchor_positions for the anchor a recorded at
\* anchor_idx: the words before it, an empty line, the section of the anchor
render_anchor_section(text, nr, from, a, anchor_idx) ==
    IF anchor_idx > Len(text) /\ from < anchor_idx THEN Panic
    ELSE [st |-> "ok",
          lines |-> << [line |-> "comment", words |-> display_forms(text, from, anchor_idx)] >>
                       \o words_till_anchor(text, nr, from, anchor_idx)
                       \o << [line |-> "empty"],
                             [line |-> "anchor", anchor |-> Anchor_display(a)] >>,
          word_idx |-> IF from < anchor_idx THEN anchor_idx ELSE from]

\* the words after the last anchor
render_remaining(text, nr, from) ==
    << [line |-> "comment", words |-> display_forms(text, from, Len(text))] >>
       \o words_till_anchor(text, nr, from, Len(text))

\* bounds and inputs of the lex file machine
MaxLexWords == 3
MaxLexAnchors == 2

\* a, and b with a compare form
LexWordForms ==
    { WordNormalForm(Word(<<Native(<<97>>)>>), <<97>>, <<>>),
      WordNormalForm(Word(<<Native(<<98>>)>>), <<98>>, << <<99>> >>) }

LexAnchorPositions ==
    UNION { [1..k -> {"One", "Two"} \X (0..MaxLexWords)] : k \in 0..MaxLexAnchors }

LexTexts ==
    { NonAgnosticAnchoredText(w, a) :
         w \in UNION { [1..k -> LexWordForms] : k \in 0..MaxLexWords },
         a \in LexAnchorPositions }

InitLex ==
    /\ lex_text \in LexTexts
    /\ as_block_nr \in 1..2
    /\ res = <<>>
    /\ word_idx = 0
    /\ anchor_no = 1
    /\ pc = "lex"
    /\ N = 0
    /\ PipelineIdle
    /\ FolioIdle

LexAnchor_on(r) ==
    /\ res' = IF r.st = "ok" THEN res \o r.lines ELSE res
    /\ word_idx' = IF r.st = "ok" THEN r.word_idx ELSE word_idx
    /\ anchor_no' = IF r.st = "ok" THEN anchor_no + 1 ELSE anchor_no
    /\ pc' = IF r.st = "ok" THEN pc ELSE "lex_panic"

\* one iteration of the loop over anchor_positions
LexAnchor ==
    /\ pc = "lex"
    /\ anchor_no <= Len(lex_text.anchor_positions)
    /\ LexAnchor_on(render_anchor_section(lex_text.text, as_block_nr, word_idx,
                                          lex_text.anchor_positions[anchor_no][1],
                                          lex_text.anchor_positions[anchor_no][2]))
    /\ UNCHANGED <<lex_text, as_block_nr, N, err, pipeline_vars, folio_vars>>

\* the end of render_for_lex_file: the remaining words
LexRemaining ==
    /\ pc = "lex"
    /\ anchor_no > Len(lex_text.anchor_positions)
    /\ res' = res \o render_remaining(lex_text.text, as_block_nr, word_idx)
    /\ word_idx' = IF word_idx < Len(lex_text.text) THEN Len(lex_text.text) ELSE word_idx
    /\ pc' = "lex_done"
    /\ UNCHANGED <<lex_text, as_block_nr, anchor_no, N, err, pipeline_vars, folio_vars>>

NextLex == LexAnchor \/ LexRemaining

SpecLex == InitLex /\ [][NextLex]_vars

\* the precondition of C30: indices non-decreasing and at most the number of words
AnchorIndicesFine(t) ==
    /\ \A j \in 1..Len(t.anchor_positions) : t.anchor_positions[j][2] <= Len(t.text)
    /\ \A j \in 1..(Len(t.anchor_positions) - 1) :
          t.anchor_positions[j][2] <= t.anchor_positions[j + 1][2]

IsWordSection(l) == l.line = "section"

IsAnchorSection(l) == l.line = "anchor"

WordSectionsBefore(p) == Cardinality({ q \in 1..(p - 1) : IsWordSection(res[q]) })

AnchorSectionsBefore(p) == Cardinality({ q \in 1..(p - 1) : IsAnchorSection(res[q]) })

\* C30: for anchor indices that are non-decreasing and at most the number of
\* words, the lex file holds one section per word, named word1, word2, ... in
\* the order of the words, and the section of the j-th anchor comes after
\* exactly as many word sections as its recorded index.
C30_LexSections ==
    (pc = "lex_done" /\ AnchorIndicesFine(lex_text)) =>
       /\ Len(SelectSeq(res, IsWordSection)) = Len(lex_text.text)
       /\ Len(SelectSeq(res, IsAnchorSection)) = Len(lex_text.anchor_positions)
       /\ \A p \in 1..Len(res) :
             /\ IsWordSection(res[p]) =>
                   /\ res[p].word = WordSectionsBefore(p) + 1
                   /\ res[p].block = as_block_nr
                   /\ res[p + 1] =
                         [line |-> "display_form",
                          value |-> lex_text.text[WordSectionsBefore(p) + 1].display_form]
             /\ IsAnchorSection(res[p]) =>
                   /\ res[p].anchor =
                         Anchor_display(lex_text.anchor_positions[AnchorSectionsBefore(p) + 1][1])
                   /\ WordSectionsBefore(p) =
                         lex_text.anchor_positions[AnchorSectionsBefore(p) + 1][2]

C30_Witness ==
    /\ pc = "lex_done"
    /\ Len(lex_text.text) = 3
    /\ lex_text.anchor_positions = << <<"Two", 1>>, <<"One", 2>> >>
    /\ Len(SelectSeq(res, IsWordSection)) = 3

====
